---- MODULE Spec2Model ----
\* Model of CloudScanner (src/scanner.py): the four scan operations and
\* _scan_repository, stepped one collaborator call at a time.  The collaborators
\* (GitHubScanner, SecretDetector, ReportGenerator) are imported by scanner.py
\* and are not part of the source at hand; every call to them either returns a
\* value drawn from a small set or raises.
EXTENDS Integers, Sequences, FiniteSets, TLC

\* ---------------------------------------------------------------- bounds
MaxRepos == 2
MaxFiles == 2
MaxSecrets == 2
MaxMatches == 2
MaxLen == 3

\* ------------------------------------------------------------- universes
Ops == {"user", "org", "ai", "single"}
PathOrder == <<".env", "logo.png", "config.py">>
Categories == {"AWS"}
Texts == {"AKIA****CDEF"}
Confidences == {1, 2, 3}
MinConfidence == 2

SeqUpTo(S, n) == UNION {[1..k -> S] : k \in 0..n}

VARIABLES
    op,            \* which scan operation is running
    pc,            \* position in the operation
    clock,         \* number of datetime.now() calls so far
    scan_start_time,
    repos,         \* the resolved repository list
    idx,           \* index of the repository being scanned
    scan_time,     \* _scan_repository: scan_time
    files,         \* _scan_repository: files
    fidx,          \* _scan_repository: position of the for loop over files
    content,       \* _scan_repository: content
    findings,      \* _scan_repository: findings
    all_findings,  \* the operation's accumulated findings
    report,        \* what generate_report received
    summary,       \* what generate_summary received
    report_path,   \* the operation's report_path
    outcome,       \* how the operation ended
    returned,      \* what the operation returned to its caller
    failure,       \* history: stage at which the current repository scan failed
    fetched,       \* history: file positions fetched in the current repository
    raw,           \* history: findings as they were handed to deduplicate_findings
    listed,        \* history: repositories whose file listing was requested
    matched,       \* history: number of secret matches in the contents fetched
    repoResults,   \* history: what _scan_repository returned, per repository
    repoStatus     \* history: how each finished repository scan ended

vars == <<op, pc, clock, scan_start_time, repos, idx, scan_time, files, fidx,
          content, findings, all_findings, report, summary, outcome, failure,
          fetched, raw, listed, matched, repoResults, repoStatus, report_path,
          returned>>


\* ------------------------------------------------------------ data model
NoContent == [kind |-> "none", matches |-> <<>>]
EmptyContent == [kind |-> "empty", matches |-> <<>>]
Matches == [category : Categories, text : Texts, confidence : Confidences]
Min(a, b) == IF a <= b THEN a ELSE b

\* What get_file_content may return: absent, the empty string, or a text
\* holding at most n secret matches.
Contents(n) ==
    {NoContent, EmptyContent}
        \cup {[kind |-> "text", matches |-> m] : m \in SeqUpTo(Matches, n)}

\* What get_repo_files may return: the paths of a tree, each path once, in the
\* order of the tree.
RECURSIVE Subsequences(_)
Subsequences(s) ==
    IF s = <<>> THEN {<<>>}
    ELSE LET rest == Subsequences(Tail(s))
         IN rest \cup {<<Head(s)>> \o r : r \in rest}
Listings == {fs \in Subsequences(PathOrder) : Len(fs) <= MaxFiles}

RepoRef(name) == [full_name |-> name, url |-> <<"https://github.com/", name>>]

Key(f) == <<f.category, f.text, f.path>>

\* SecretDetector.should_scan_file: reject by extension.
should_scan_file(path) == path # "logo.png"

\* SecretDetector.detect_secrets_in_text: one finding per match, in document
\* order, the line being the position of the match.
detect_secrets_in_text(c, path) ==
    [i \in 1..Len(c.matches) |->
        [category |-> c.matches[i].category, text |-> c.matches[i].text,
         path |-> path, line |-> i, confidence |-> c.matches[i].confidence]]

\* SecretDetector.deduplicate_findings: first-seen order of the keys, the
\* survivor of a key is its first finding of maximal confidence.
KeyIndex(acc, f) ==
    IF \E i \in 1..Len(acc) : Key(acc[i]) = Key(f)
    THEN CHOOSE i \in 1..Len(acc) : Key(acc[i]) = Key(f)
    ELSE 0

RECURSIVE DedupFold(_, _)
DedupFold(fs, acc) ==
    IF fs = <<>> THEN acc
    ELSE LET f == Head(fs)
             k == KeyIndex(acc, f)
         IN IF k = 0 THEN DedupFold(Tail(fs), Append(acc, f))
            ELSE IF f.confidence > acc[k].confidence
                 THEN DedupFold(Tail(fs), [acc EXCEPT ![k] = f])
                 ELSE DedupFold(Tail(fs), acc)

\* A deduplication that builds its result by inserting at the front.
RECURSIVE DedupFoldPrepend(_, _)
DedupFoldPrepend(fs, acc) ==
    IF fs = <<>> THEN acc
    ELSE LET f == Head(fs)
             k == KeyIndex(acc, f)
         IN IF k = 0 THEN DedupFoldPrepend(Tail(fs), <<f>> \o acc)
            ELSE IF f.confidence > acc[k].confidence
                 THEN DedupFoldPrepend(Tail(fs), [acc EXCEPT ![k] = f])
                 ELSE DedupFoldPrepend(Tail(fs), acc)
deduplicate_prepend(fs) == DedupFoldPrepend(fs, <<>>)

deduplicate_findings(fs) == DedupFold(fs, <<>>)

\* SecretDetector.filter_high_confidence: drop what is strictly below threshold.
AtLeastThreshold(f) == f.confidence >= MinConfidence
filter_high_confidence(fs) == SelectSeq(fs, AtLeastThreshold)

\* An enrichment that takes the time anew for every finding.
EnrichPerFindingTime(secrets, repo, t) ==
    [i \in 1..Len(secrets) |->
        [category |-> secrets[i].category, text |-> secrets[i].text,
         path |-> secrets[i].path, line |-> secrets[i].line,
         confidence |-> secrets[i].confidence,
         repo_url |-> repo.url, repo_name |-> repo.full_name,
         scan_time |-> t + i]]

\* scanner.py 213-217: the orchestrator's enrichment of one file's secrets.
Enrich(secrets, repo, t) ==
    [i \in 1..Len(secrets) |->
        [category |-> secrets[i].category, text |-> secrets[i].text,
         path |-> secrets[i].path, line |-> secrets[i].line,
         confidence |-> secrets[i].confidence,
         repo_url |-> repo.url, repo_name |-> repo.full_name,
         scan_time |-> t]]

\* An aggregation that deduplicates across repositories.
ExtendDeduplicated(all, fs) == deduplicate_findings(all \o fs)

\* scanner.py 47: all_findings.extend(findings)
Extend(all, fs) == all \o fs

\* A handler that lets the failure leave _scan_repository.
CaughtRaises(stage) == /\ failure' = stage
                       /\ pc' = "raised"

\* A handler that asks for the listing again.
CaughtRetries(stage) == /\ failure' = stage
                        /\ pc' = "list"

\* A handler inside the file loop that resumes the loop without advancing it.
CaughtResumes(stage) == /\ failure' = stage
                        /\ pc' = IF stage = "listing" THEN "ret" ELSE "file"

\* A handler that catches the failures of the repository-access calls only.
CaughtIfAccessFailure(stage) ==
    /\ failure' = stage
    /\ pc' = IF stage \in {"listing", "fetch"} THEN "ret" ELSE "raised"

\* scanner.py 228-231: the except clause prints and falls through to the return.
\* (The failing steps also clear content and raw, which are not read again.)
Caught(stage) == /\ failure' = stage
                 /\ pc' = "ret"

\* ReportGenerator.generate_report: the location of the report it wrote.
ReportLocation(scan_type, t) == <<"report", scan_type, t>>
NoLocation == <<>>

NoReport == [called |-> 0, findings |-> <<>>, scan_type |-> "none",
             location |-> NoLocation]
NoSummary == [called |-> 0, count |-> 0, path |-> NoLocation]

Init ==
    /\ op \in Ops
    /\ pc = "start"
    /\ clock = 0
    /\ scan_start_time = 0
    /\ repos = <<>>
    /\ idx = 0
    /\ scan_time = 0
    /\ files = <<>>
    /\ fidx = 0
    /\ content = NoContent
    /\ findings = <<>>
    /\ all_findings = <<>>
    /\ report = NoReport
    /\ summary = NoSummary
    /\ report_path = NoLocation
    /\ returned = NoLocation
    /\ outcome = "running"
    /\ failure = "none"
    /\ fetched = {}
    /\ raw = <<>>
    /\ listed = {}
    /\ matched = 0
    /\ repoResults = <<>>
    /\ repoStatus = <<>>

\* ------------------------------------------------------- scan operations
\* A loop that stops one repository short.
LoopPcStopsEarly(i, rs) == IF i < Len(rs) THEN "enter" ELSE "report"

\* scanner.py 44 / 82 / 120: the for loop over repos; scan_single_repo has no
\* loop and calls _scan_repository once (160).
LoopPc(i, rs) == IF i <= Len(rs) THEN "enter" ELSE "report"

\* A resolution failure taken for an empty repository list.
ResolveFailureSwallowed ==
    /\ failure' = "resolve"
    /\ pc' = "report"
    /\ outcome' = outcome

\* scanner.py 39 / 77 / 115: the listing call is outside any try, so its
\* failure leaves the operation.
ResolveFailure ==
    /\ failure' = "resolve"
    /\ pc' = "raised"
    /\ outcome' = "raised"

\* scan_user / scan_organization / scan_ai_projects up to the repository list.
ResolveRepos ==
    /\ pc = "start"
    /\ op # "single"
    /\ clock' = clock + 1
    /\ scan_start_time' = clock + 1
    /\ \E n \in 0..MaxRepos :
        /\ repos' = [i \in 1..n |-> RepoRef(i)]
        /\ pc' = LoopPc(1, repos')
    /\ idx' = 1
    /\ UNCHANGED <<op, scan_time, files, fidx, content, findings, all_findings,
                   report, summary, outcome, failure, fetched, raw, listed,
                   repoResults, repoStatus,
                   matched,
                   report_path, returned>>

ResolveReposFails ==
    /\ pc = "start"
    /\ op # "single"
    /\ clock' = clock + 1
    /\ scan_start_time' = clock + 1
    /\ ResolveFailure
    /\ UNCHANGED <<op, repos, idx, scan_time, files, fidx, content, findings,
                   all_findings, report, summary, fetched, raw, listed,
                   repoResults, repoStatus,
                   matched,
                   report_path, returned>>

\* scan_single_repo up to the call of _scan_repository.
BuildRepoInfo ==
    /\ pc = "start"
    /\ op = "single"
    /\ clock' = clock + 1
    /\ scan_start_time' = clock + 1
    /\ repos' = <<RepoRef(1)>>
    /\ idx' = 1
    /\ pc' = "enter"
    /\ UNCHANGED <<op, scan_time, files, fidx, content, findings, all_findings,
                   report, summary, outcome, failure, fetched, raw, listed,
                   repoResults, repoStatus,
                   matched,
                   report_path, returned>>

\* _scan_repository: findings = [] and scan_time = now().
EnterScanRepository ==
    /\ pc = "enter"
    /\ findings' = <<>>
    /\ clock' = clock + 1
    /\ scan_time' = clock + 1
    /\ pc' = "list"
    /\ UNCHANGED <<op, scan_start_time, repos, idx, files, fidx, content,
                   all_findings, report, summary, outcome, failure, fetched,
                   raw, listed, matched, repoResults, repoStatus,
                   report_path, returned>>

GetRepoFiles ==
    /\ pc = "list"
    /\ listed' = listed \cup {idx}
    /\ \E fs \in Listings : files' = fs
    /\ fidx' = 1
    /\ pc' = "file"
    /\ UNCHANGED <<op, clock, scan_start_time, repos, idx, scan_time, content,
                   findings, all_findings, report, summary, outcome, failure,
                   fetched, raw, matched, repoResults, repoStatus,
                   report_path, returned>>

GetRepoFilesFails ==
    /\ pc = "list"
    /\ listed' = listed \cup {idx}
    /\ content' = NoContent
    /\ raw' = <<>>
    /\ Caught("listing")
    /\ UNCHANGED <<op, clock, scan_start_time, repos, idx, scan_time, files,
                   fidx, findings, all_findings, report, summary,
                   outcome, fetched, matched, repoResults, repoStatus,
                   report_path, returned>>

\* A loop head that fetches every listed file.
NextFileUngated ==
    /\ pc = "file"
    /\ IF fidx > Len(files)
       THEN /\ pc' = "dedup"
            /\ fidx' = fidx
       ELSE /\ pc' = "fetch"
            /\ fidx' = fidx
    /\ UNCHANGED <<op, clock, scan_start_time, repos, idx, scan_time, files,
                   content, findings, all_findings, report, summary, outcome,
                   failure, fetched, raw, listed, matched, repoResults, repoStatus,
                   report_path, returned>>

\* The head of the for loop over files with the should_scan_file test.
NextFile ==
    /\ pc = "file"
    /\ IF fidx > Len(files)
       THEN /\ pc' = "dedup"
            /\ fidx' = fidx
       ELSE IF should_scan_file(files[fidx])
            THEN /\ pc' = "fetch"
                 /\ fidx' = fidx
            ELSE /\ pc' = "file"
                 /\ fidx' = fidx + 1
    /\ UNCHANGED <<op, clock, scan_start_time, repos, idx, scan_time, files,
                   content, findings, all_findings, report, summary, outcome,
                   failure, fetched, raw, listed, matched, repoResults, repoStatus,
                   report_path, returned>>

ShouldScanFileFails ==
    /\ pc = "file"
    /\ fidx <= Len(files)
    /\ content' = NoContent
    /\ raw' = <<>>
    /\ Caught("should_scan")
    /\ UNCHANGED <<op, clock, scan_start_time, repos, idx, scan_time, files,
                   fidx, findings, all_findings, report, summary,
                   outcome, fetched, listed, matched, repoResults, repoStatus,
                   report_path, returned>>

\* A test for None only.
IsNotNone(c) == c.kind # "none"

\* scanner.py 205: "if content" is false for None and for the empty string.
Truthy(c) == c.kind = "text"

GetFileContent ==
    /\ pc = "fetch"
    /\ fetched' = fetched \cup {fidx}
    /\ \E c \in Contents(Min(MaxSecrets, MaxMatches - matched)) :
        /\ content' = c
        /\ matched' = matched + Len(c.matches)
        /\ IF Truthy(c)
           THEN pc' = "detect" /\ fidx' = fidx
           ELSE pc' = "file" /\ fidx' = fidx + 1
    /\ UNCHANGED <<op, clock, scan_start_time, repos, idx, scan_time, files,
                   findings, all_findings, report, summary, outcome, failure,
                   raw, listed, repoResults, repoStatus,
                   report_path, returned>>

GetFileContentFails ==
    /\ pc = "fetch"
    /\ fetched' = fetched \cup {fidx}
    /\ content' = NoContent
    /\ raw' = <<>>
    /\ Caught("fetch")
    /\ UNCHANGED <<op, clock, scan_start_time, repos, idx, scan_time, files,
                   fidx, findings, all_findings, report, summary,
                   outcome, listed, matched, repoResults, repoStatus,
                   report_path, returned>>

\* scanner.py 207-217; content is not read again before the next fetch and is
\* cleared.
DetectSecrets ==
    /\ pc = "detect"
    /\ findings' = findings \o Enrich(detect_secrets_in_text(content, files[fidx]),
                                      repos[idx], scan_time)
    /\ fidx' = fidx + 1
    /\ content' = NoContent
    /\ pc' = "file"
    /\ UNCHANGED <<op, clock, scan_start_time, repos, idx, scan_time, files,
                   all_findings, report, summary, outcome, failure,
                   fetched, raw, listed, matched, repoResults, repoStatus,
                   report_path, returned>>

DetectSecretsFails ==
    /\ pc = "detect"
    /\ content' = NoContent
    /\ raw' = <<>>
    /\ Caught("detect")
    /\ UNCHANGED <<op, clock, scan_start_time, repos, idx, scan_time, files,
                   fidx, findings, all_findings, report, summary,
                   outcome, fetched, listed, matched, repoResults, repoStatus,
                   report_path, returned>>

\* The result of deduplicate_findings dropped instead of assigned.
AssignNotDeduplicated == findings' = findings

\* scanner.py 220: findings = deduplicate_findings(findings)
AssignDeduplicated == findings' = deduplicate_findings(findings)

Deduplicate ==
    /\ pc = "dedup"
    /\ raw' = findings
    /\ AssignDeduplicated
    /\ pc' = "filter"
    /\ UNCHANGED <<op, clock, scan_start_time, repos, idx, scan_time, files,
                   fidx, content, all_findings, report, summary, outcome,
                   failure, fetched, listed, matched, repoResults,
                   repoStatus,
                   report_path, returned>>

DeduplicateFails ==
    /\ pc = "dedup"
    /\ content' = NoContent
    /\ raw' = <<>>
    /\ Caught("dedup")
    /\ UNCHANGED <<op, clock, scan_start_time, repos, idx, scan_time, files,
                   fidx, findings, all_findings, report, summary,
                   outcome, fetched, listed, matched, repoResults, repoStatus,
                   report_path, returned>>

\* The result of filter_high_confidence dropped instead of assigned.
AssignNotFiltered == findings' = findings

\* scanner.py 221: findings = filter_high_confidence(findings)
AssignFiltered == findings' = filter_high_confidence(findings)

FilterHighConfidence ==
    /\ pc = "filter"
    /\ AssignFiltered
    /\ pc' = "ret"
    /\ UNCHANGED <<op, clock, scan_start_time, repos, idx, scan_time, files,
                   fidx, content, all_findings, report, summary, outcome,
                   failure, fetched, raw, listed, matched, repoResults, repoStatus,
                   report_path, returned>>

FilterHighConfidenceFails ==
    /\ pc = "filter"
    /\ content' = NoContent
    /\ raw' = <<>>
    /\ Caught("filter")
    /\ UNCHANGED <<op, clock, scan_start_time, repos, idx, scan_time, files,
                   fidx, findings, all_findings, report, summary,
                   outcome, fetched, listed, matched, repoResults, repoStatus,
                   report_path, returned>>

\* scanner.py 231 and the caller's 46-47 (160 in scan_single_repo): the list is
\* returned and added to the aggregate; the callee's locals are gone.
StatusOf(stage) ==
    IF stage \in {"none", "listing"} THEN stage ELSE "partial"

ReturnFindings ==
    /\ pc = "ret"
    /\ repoResults' = Append(repoResults, findings)
    /\ repoStatus' = Append(repoStatus, StatusOf(failure))
    /\ all_findings' = IF op = "single" THEN findings
                       ELSE Extend(all_findings, findings)
    /\ idx' = idx + 1
    /\ pc' = IF op = "single" THEN "report" ELSE LoopPc(idx + 1, repos)
    /\ scan_time' = 0
    /\ files' = <<>>
    /\ fidx' = 0
    /\ content' = NoContent
    /\ findings' = <<>>
    /\ failure' = "none"
    /\ fetched' = {}
    /\ raw' = <<>>
    /\ UNCHANGED <<op, clock, scan_start_time, repos, report, summary, outcome,
                   listed, matched,
                   report_path, returned>>

GenerateReport ==
    /\ pc = "report"
    /\ report' = [called |-> report.called + 1, findings |-> all_findings,
                  scan_type |-> op,
                  location |-> ReportLocation(op, scan_start_time)]
    /\ report_path' = ReportLocation(op, scan_start_time)
    /\ pc' = "summary"
    /\ UNCHANGED <<op, clock, scan_start_time, repos, idx, scan_time, files,
                   fidx, content, findings, all_findings, summary, outcome,
                   failure, fetched, raw, listed, matched, repoResults, repoStatus,
                   returned>>

GenerateSummary ==
    /\ pc = "summary"
    /\ summary' = [called |-> summary.called + 1, count |-> Len(all_findings),
                   path |-> report_path]
    /\ returned' = report_path
    /\ outcome' = "returned"
    /\ pc' = "done"
    /\ UNCHANGED <<op, clock, scan_start_time, repos, idx, scan_time, files,
                   fidx, content, findings, all_findings, report, failure,
                   fetched, raw, listed, matched, repoResults, repoStatus,
                   report_path>>

Next ==
    \/ ResolveRepos
    \/ ResolveReposFails
    \/ BuildRepoInfo
    \/ EnterScanRepository
    \/ GetRepoFiles
    \/ GetRepoFilesFails
    \/ NextFile
    \/ ShouldScanFileFails
    \/ GetFileContent
    \/ GetFileContentFails
    \/ DetectSecrets
    \/ DetectSecretsFails
    \/ Deduplicate
    \/ DeduplicateFails
    \/ FilterHighConfidence
    \/ FilterHighConfidenceFails
    \/ ReturnFindings
    \/ GenerateReport
    \/ GenerateSummary

Spec == Init /\ [][Next]_vars

\* The single thread keeps running: every collaborator call returns or fails.
\* scan_organization and scan_ai_projects run the loop of scan_user line for
\* line, so the fair behaviours are those of scan_user and scan_single_repo.
InitFair == Init /\ op \in {"user", "single"}
FairSpec == InitFair /\ [][Next]_vars /\ WF_vars(Next)

\* ------------------------------------- deduplicate_findings on its own
\* The inputs are all finding sequences of at most MaxLen entries over two
\* texts, two paths and the three confidences; an entry's line is its position,
\* so that equal-confidence duplicates can be told apart.
DedupTexts == {"AKIA****CDEF", "ghp_****9xYz"}
DedupPaths == {".env", "config.py"}
DedupChoices == [text : DedupTexts, path : DedupPaths, confidence : Confidences]
DedupInput(ch) ==
    [i \in 1..Len(ch) |->
        [category |-> "AWS", text |-> ch[i].text, path |-> ch[i].path,
         line |-> i, confidence |-> ch[i].confidence,
         repo_url |-> RepoRef(1).url, repo_name |-> RepoRef(1).full_name,
         scan_time |-> 1]]
DedupInputs == {DedupInput(ch) : ch \in SeqUpTo(DedupChoices, MaxLen)}

InitDedup ==
    /\ op = "single"
    /\ pc = "dedup_in"
    /\ clock = 0
    /\ scan_start_time = 0
    /\ repos = <<RepoRef(1)>>
    /\ idx = 1
    /\ scan_time = 1
    /\ files = <<>>
    /\ fidx = 0
    /\ content = NoContent
    /\ findings \in DedupInputs
    /\ all_findings = <<>>
    /\ report = NoReport
    /\ summary = NoSummary
    /\ report_path = NoLocation
    /\ returned = NoLocation
    /\ outcome = "running"
    /\ failure = "none"
    /\ fetched = {}
    /\ raw = <<>>
    /\ listed = {}
    /\ matched = 0
    /\ repoResults = <<>>
    /\ repoStatus = <<>>

\* deduplicate_findings applied to findings; raw keeps what it was applied to.
ApplyDeduplicate ==
    /\ pc \in {"dedup_in", "dedup_once"}
    /\ raw' = findings
    /\ AssignDeduplicated
    /\ pc' = IF pc = "dedup_in" THEN "dedup_once" ELSE "dedup_twice"
    /\ UNCHANGED <<op, clock, scan_start_time, repos, idx, scan_time, files,
                   fidx, content, all_findings, report, summary, outcome,
                   failure, fetched, listed, matched, repoResults, repoStatus,
                   report_path, returned>>

NextDedup == ApplyDeduplicate

DedupSpec == InitDedup /\ [][NextDedup]_vars

\* ----------------------------------------------------------- properties
Range(fs) == {fs[i] : i \in 1..Len(fs)}

RECURSIVE Concat(_)
Concat(lists) == IF lists = <<>> THEN <<>> ELSE Head(lists) \o Concat(Tail(lists))

NoDuplicateKeys(fs) ==
    \A i, j \in 1..Len(fs) : i < j => Key(fs[i]) # Key(fs[j])

AllAtLeastThreshold(fs) ==
    \A i \in 1..Len(fs) : fs[i].confidence >= MinConfidence

\* The highest confidence among the findings of fs that have key k.
MaxConfidence(fs, k) ==
    CHOOSE m \in Confidences :
        /\ \E i \in 1..Len(fs) : Key(fs[i]) = k /\ fs[i].confidence = m
        /\ \A i \in 1..Len(fs) : Key(fs[i]) = k => fs[i].confidence <= m

\* The position at which key k is first seen in fs.
FirstSeen(fs, k) ==
    CHOOSE i \in 1..Len(fs) :
        /\ Key(fs[i]) = k
        /\ \A j \in 1..(i - 1) : Key(fs[j]) # k

MultiRepoOp == op \in {"user", "org", "ai"}

\* C1: in scan_user / scan_organization / scan_ai_projects, once the repository
\* list is there, a repository whose get_repo_files fails returns no findings,
\* no exception reaches the caller, every repository of the target is listed
\* and scanned, and the list handed to generate_report holds the findings of the
\* other repositories and none attributed to the failed one.
C1_RepositoryFaultIsolation ==
    (MultiRepoOp /\ idx >= 1) =>
        /\ pc # "raised"
        /\ outcome # "raised"
        /\ \A k \in 1..Len(repoStatus) :
              repoStatus[k] = "listing" => repoResults[k] = <<>>
        /\ report.called >= 1 =>
              /\ listed = 1..Len(repos)
              /\ Len(repoResults) = Len(repos)
              /\ \A k \in 1..Len(repos) :
                    IF repoStatus[k] = "listing"
                    THEN \A f \in Range(report.findings) :
                            f.repo_name # repos[k].full_name
                    ELSE Range(repoResults[k]) \subseteq Range(report.findings)
        /\ pc = "done" => outcome = "returned" /\ report.called = 1

C1_Witness ==
    /\ MultiRepoOp
    /\ pc = "done"
    /\ outcome = "returned"
    /\ Len(repos) >= 2
    /\ \E k, j \in 1..Len(repos) :
          /\ repoStatus[k] = "listing"
          /\ repoStatus[j] = "none"
          /\ repoResults[j] # <<>>
          /\ Range(repoResults[j]) \subseteq Range(report.findings)

\* C2: when get_file_content or detect_secrets_in_text fails for one eligible
\* file, the repository scan goes on: every eligible file of the listing is
\* still fetched, and what the repository returns has been through dedup and
\* filter.
C2_FileFaultIsolation ==
    (pc = "ret" /\ failure \in {"fetch", "detect"}) =>
        /\ \A i \in 1..Len(files) : should_scan_file(files[i]) => i \in fetched
        /\ NoDuplicateKeys(findings)
        /\ AllAtLeastThreshold(findings)

\* C3: every finding in the list handed to generate_report has a confidence of
\* at least the minimum threshold, whatever succeeded or failed before.
C3_ThresholdInvariant ==
    report.called >= 1 => AllAtLeastThreshold(report.findings)

\* C4: no two findings in the list handed to generate_report share the same
\* (category, matched text, file path).
C4_DedupInvariant ==
    report.called >= 1 => NoDuplicateKeys(report.findings)

\* C5: once the repository list has been obtained, the scan ends by calling
\* generate_report exactly once and returning, whatever failed on the way; an
\* empty findings list is reported like any other.
C5_ScanAlwaysReports ==
    /\ [](report.called <= 1)
    /\ [](pc = "done" => /\ outcome = "returned"
                         /\ report.called = 1
                         /\ report.findings = all_findings)
    /\ (idx >= 1) ~> (pc = "done" /\ outcome = "returned" /\ report.called = 1)

C5_Witness ==
    /\ pc = "done"
    /\ outcome = "returned"
    /\ Len(repos) >= 2
    /\ \A k \in 1..Len(repos) : repoStatus[k] # "none"
    /\ report.called = 1
    /\ report.findings = <<>>

\* C6: when get_user_repos / get_org_repos / search_ai_repos fails, the failure
\* reaches the caller, no repository is scanned and neither generate_report nor
\* generate_summary is called.
C6_ResolutionFailureIsFatal ==
    failure = "resolve" =>
        /\ MultiRepoOp
        /\ pc = "raised"
        /\ outcome = "raised"
        /\ listed = {}
        /\ repoResults = <<>>
        /\ report.called = 0
        /\ summary.called = 0

C6_Witness ==
    /\ failure = "resolve"
    /\ op = "org"
    /\ pc = "raised"
    /\ outcome = "raised"

\* C7: when scan_single_repo's get_repo_files call fails, the failure reaches
\* the caller instead of a report with no findings being produced.
C7_SingleRepoFailureIsFatal ==
    (op = "single" /\ Len(repoStatus) >= 1 /\ repoStatus[1] = "listing") =>
        /\ report.called = 0
        /\ outcome # "returned"

\* C8: the list handed to generate_report is the per-repository results of
\* _scan_repository concatenated in the order of the repository list; nothing is
\* dropped, reordered or deduplicated across repositories.
C8_AggregationIsConcatenation ==
    /\ all_findings = Concat(repoResults)
    /\ \A k \in 1..Len(repoResults) :
          \A f \in Range(repoResults[k]) : f.repo_name = repos[k].full_name
    /\ report.called >= 1 =>
          /\ Len(repoResults) = Len(repos)
          /\ report.findings = Concat(repoResults)

C8_Witness ==
    /\ report.called = 1
    /\ Len(repos) >= 2
    /\ \E i, j \in 1..Len(report.findings) :
          /\ i < j
          /\ Key(report.findings[i]) = Key(report.findings[j])
          /\ report.findings[i].repo_name # report.findings[j].repo_name

\* C9: in a repository scan that completes without failure, each duplicate
\* group of the accumulated findings is represented in the result by exactly
\* one entry carrying the group's maximal confidence if that maximum is at least
\* the threshold, and by no entry otherwise; the result holds nothing else.
C9_DedupBeforeFilter ==
    (pc = "ret" /\ failure = "none") =>
        /\ Range(findings) \subseteq Range(raw)
        /\ \A i \in 1..Len(raw) :
              LET k == Key(raw[i])
                  m == MaxConfidence(raw, k)
                  survivors == {j \in 1..Len(findings) : Key(findings[j]) = k}
              IN IF m >= MinConfidence
                 THEN /\ Cardinality(survivors) = 1
                      /\ \A j \in survivors : findings[j].confidence = m
                 ELSE survivors = {}

C9_Witness ==
    /\ pc = "ret"
    /\ failure = "none"
    /\ \E i, j \in 1..Len(raw) :
          /\ i < j
          /\ Key(raw[i]) = Key(raw[j])
          /\ raw[i].confidence >= MinConfidence
          /\ raw[i].confidence < raw[j].confidence
    /\ Len(findings) = 1

\* C10: deduplicating a deduplicated list changes nothing; the result of
\* deduplication has one entry per key, the key's earliest finding of maximal
\* confidence, and the entries stand in the order their keys were first seen.
C10_DedupIdempotent ==
    /\ pc = "dedup_twice" => findings = raw
    /\ pc = "dedup_once" =>
          /\ NoDuplicateKeys(findings)
          /\ Range(findings) \subseteq Range(raw)
          /\ \A i \in 1..Len(raw) :
                \E j \in 1..Len(findings) :
                    /\ Key(findings[j]) = Key(raw[i])
                    /\ findings[j].confidence = MaxConfidence(raw, Key(raw[i]))
                    /\ findings[j].confidence = raw[i].confidence
                          => findings[j].line <= raw[i].line
          /\ \A i, j \in 1..Len(findings) :
                i < j => FirstSeen(raw, Key(findings[i]))
                            < FirstSeen(raw, Key(findings[j]))

C10_Witness ==
    /\ pc = "dedup_twice"
    /\ Len(findings) = 2
    /\ findings = raw
    /\ \E i \in 1..2 : findings[i].line = 3

InScan == pc \in {"file", "fetch", "detect", "dedup", "filter", "ret"}

\* C11: repositories are processed one at a time in listing order and files one
\* at a time in listing order: get_repo_files for a repository is requested
\* only when every earlier repository has been listed and has returned, a file
\* is fetched only when no file at or after it has been fetched, and detection
\* of a file runs before any later file is fetched.
C11_StrictlySequential ==
    /\ pc = "list" =>
          /\ listed = 1..(idx - 1)
          /\ Len(repoResults) = idx - 1
    /\ InScan =>
          /\ listed = 1..idx
          /\ Len(repoResults) = idx - 1
          /\ fetched \subseteq 1..Len(files)
    /\ pc = "fetch" =>
          /\ fidx \notin fetched
          /\ \A i \in fetched : i < fidx
    /\ pc = "detect" =>
          /\ fidx \in fetched
          /\ \A i \in fetched : i <= fidx
    /\ pc \in {"file", "fetch"} =>
          fetched = {i \in 1..(fidx - 1) : should_scan_file(files[i])}

C11_Witness ==
    /\ pc = "fetch"
    /\ idx = 2
    /\ Len(repoResults) = 1
    /\ Len(files) = 2
    /\ fidx = 2
    /\ fetched = {1}
    /\ findings # <<>>

\* C12: every finding carries the full name and the URL of the repository whose
\* file produced it and the scan_time of that repository's scan, which is taken
\* once, before the file listing is requested, and is the same for all findings
\* of the repository; no finding carries the name of another repository.
C12_MetadataEnrichment ==
    /\ pc = "list" => scan_time = clock /\ idx \notin listed
    /\ InScan =>
          /\ scan_time = clock
          /\ \A f \in Range(findings) :
                /\ f.repo_name = repos[idx].full_name
                /\ f.repo_url = repos[idx].url
                /\ f.scan_time = scan_time
    /\ \A k \in 1..Len(repoResults) :
          \A f \in Range(repoResults[k]) :
              /\ f.repo_name = repos[k].full_name
              /\ f.repo_url = repos[k].url
              /\ \A g \in Range(repoResults[k]) : g.scan_time = f.scan_time
              /\ \A j \in 1..Len(repoResults) :
                    j # k => \A g \in Range(repoResults[j]) :
                                g.repo_name # f.repo_name
    /\ report.called >= 1 =>
          \A f \in Range(report.findings) :
              \E k \in 1..Len(repos) : f \in Range(repoResults[k])

C12_Witness ==
    /\ report.called = 1
    /\ Len(repos) = 2
    /\ Len(report.findings) = 2
    /\ report.findings[1].repo_name = repos[1].full_name
    /\ report.findings[2].repo_name = repos[2].full_name
    /\ report.findings[2].repo_url = repos[2].url

\* C13: get_file_content and detect_secrets_in_text are called only for files
\* that should_scan_file accepted: a rejected file is never fetched and no
\* finding has its path, and no file is fetched twice in one repository scan.
C13_FilterGating ==
    /\ pc \in {"fetch", "detect"} =>
          /\ fidx \in 1..Len(files)
          /\ should_scan_file(files[fidx])
    /\ pc = "fetch" => fidx \notin fetched
    /\ InScan =>
          /\ \A i \in fetched : i \in 1..Len(files) /\ should_scan_file(files[i])
          /\ \A f \in Range(findings) \cup Range(raw) :
                /\ should_scan_file(f.path)
                /\ \E i \in fetched : files[i] = f.path
    /\ \A k \in 1..Len(repoResults) :
          \A f \in Range(repoResults[k]) : should_scan_file(f.path)

C13_Witness ==
    /\ pc = "dedup"
    /\ files = <<"logo.png", "config.py">>
    /\ fetched = {2}
    /\ Len(findings) = 2

\* C14: when get_file_content returns absent or empty content, detection is not
\* called for the file, the findings stay as they were and the loop goes on
\* with the next file.
C14_EmptyContentSkipped ==
    [][(pc = "fetch" /\ failure' = "none" /\ content'.kind \in {"none", "empty"})
          => /\ pc' = "file"
             /\ fidx' = fidx + 1
             /\ findings' = findings
             /\ files' = files]_vars

C14_Witness ==
    /\ pc = "fetch"
    /\ files = <<".env", "config.py">>
    /\ fidx = 2
    /\ fetched = {1}
    /\ content = EmptyContent
    /\ findings = <<>>
    /\ failure = "none"

\* C15: generate_report is called once, after the last repository of the target
\* has been processed; generate_summary is called once, after it, with the
\* location generate_report returned and a count equal to the length of the
\* list generate_report received; that location is what the operation returns.
C15_ReportThenSummaryOnce ==
    /\ report.called <= 1
    /\ summary.called <= 1
    /\ pc \in {"start", "enter", "list", "raised"} \cup
             {"file", "fetch", "detect", "dedup", "filter", "ret"} =>
          report.called = 0 /\ summary.called = 0
    /\ report.called = 1 =>
          /\ Len(repoResults) = Len(repos)
          /\ listed = 1..Len(repos)
          /\ report.location = report_path
          /\ report.location # NoLocation
    /\ summary.called = 1 =>
          /\ report.called = 1
          /\ summary.path = report.location
          /\ summary.count = Len(report.findings)
    /\ pc = "done" =>
          /\ report.called = 1
          /\ summary.called = 1
          /\ returned = report.location

C15_Witness ==
    /\ pc = "done"
    /\ Len(repos) = 2
    /\ summary.called = 1
    /\ summary.count = 2
    /\ Len(report.findings) = 2
    /\ returned = summary.path

ScanStages == {"listing", "should_scan", "fetch", "detect", "dedup", "filter"}

\* C16: a failure at any stage of _scan_repository is caught inside it: the
\* operation is at the return of _scan_repository, it has not been left with an
\* exception, and when the report is reached every repository of the target,
\* the failed ones included, has returned a list.
C16_ScanRepositoryNeverRaises ==
    /\ failure \in ScanStages =>
          /\ pc = "ret"
          /\ outcome = "running"
          /\ Len(repoResults) = idx - 1
    /\ pc = "raised" => failure = "resolve" /\ repoStatus = <<>>
    /\ pc \in {"report", "summary", "done"} =>
          /\ Len(repoResults) = Len(repos)
          /\ Len(repoStatus) = Len(repos)

C16_Witness ==
    /\ pc = "ret"
    /\ failure = "filter"
    /\ idx = 2
    /\ repoStatus = <<"partial">>
    /\ Len(repoResults) = 1

\* C17: whenever _scan_repository catches a failure, at whatever stage, the
\* list it returns is empty.
C17_FailedRepositoryContributesNothing ==
    /\ (pc = "ret" /\ failure \in ScanStages) => findings = <<>>
    /\ \A k \in 1..Len(repoStatus) :
          repoStatus[k] # "none" => repoResults[k] = <<>>

\* The findings of fs that belong to the file at path p.
OfFile(fs, p) == SelectSeq(fs, LAMBDA f : f.path = p)

\* Fetch -> Detect -> Dedup -> Filter file by file, the results joined in the
\* order of the listing.
RECURSIVE PerFilePipeline(_, _)
PerFilePipeline(fs, listing) ==
    IF listing = <<>> THEN <<>>
    ELSE filter_high_confidence(deduplicate_findings(OfFile(fs, Head(listing))))
            \o PerFilePipeline(fs, Tail(listing))

PairwiseDistinct(listing) ==
    \A i, j \in 1..Len(listing) : i # j => listing[i] # listing[j]

\* C18: for a repository whose listing holds pairwise distinct paths and whose
\* scan does not fail, deduplicating and filtering the accumulated findings once
\* gives the same sequence as deduplicating and filtering the findings of each
\* file separately and joining the results in file order.
C18_PerRepositoryEqualsPerFile ==
    (pc = "ret" /\ failure = "none" /\ PairwiseDistinct(files)) =>
        findings = PerFilePipeline(raw, files)

C18_Witness ==
    /\ pc = "ret"
    /\ failure = "none"
    /\ files = <<".env", "config.py">>
    /\ Len(raw) = 2
    /\ raw[1].path = ".env"
    /\ raw[2].path = "config.py"
    /\ raw[1].confidence < MinConfidence
    /\ Len(findings) = 1

====
